---- MODULE Spec2Model ----
(***************************************************************************)
(* Retail analytics dashboard (src/app.py).  The script is re-executed     *)
(* from the top on every interaction: it loads the three tables, reads the *)
(* category multiselect, joins and filters, and computes the KPIs, the     *)
(* product performance, the customer aggregate, the frequency segments,    *)
(* the repeat customers, the loyalty series and the monthly revenue.       *)
(*                                                                         *)
(* A dataframe is a sequence of rows, a row a record of its columns.       *)
(* Product names are numbered in their lexicographic order.                *)
(***************************************************************************)
EXTENDS Integers, Sequences, FiniteSets, TLC

VARIABLES
    db,                 \* the database: [sales, customers, inventory]
    selection,          \* the multiselect's widget state ("default" or a set)
    pc,                 \* the script section about to run
    error,              \* "" or the exception that ended the run
    sales, customers, inventory,
    category_filter,
    merged,
    kpi,                \* [total_revenue, total_orders, total_customers]
    product_perf, top10, bottom10,
    cust_seg,
    customer_segments, segment_counts,
    repeat_customers,
    repeat,
    monthly,
    previous            \* what the previous completed run displayed

vars == <<db, selection, pc, error, sales, customers, inventory,
          category_filter, merged, kpi, product_perf, top10, bottom10,
          cust_seg, customer_segments, segment_counts, repeat_customers,
          repeat, monthly, previous>>

(***************************************************************************)
(* Cells and series                                                        *)
(***************************************************************************)

\* A NULL of the database is read as NaN; valid quantities, prices and ids
\* are all >= 0.
NaN == -1

Range(s) == {s[i] : i \in DOMAIN s}

Column(df, c) == [i \in DOMAIN df |-> df[i][c]]

\* Series * Series: NaN where either operand is NaN.
Mul(a, b) == IF a = NaN \/ b = NaN THEN NaN ELSE a * b

\* Series.sum(skipna=False): NaN as soon as one cell is NaN.
RECURSIVE Sum_PropagateNaN(_)
Sum_PropagateNaN(s) ==
    IF s = <<>> THEN 0
    ELSE LET rest == Sum_PropagateNaN(Tail(s))
         IN  IF Head(s) = NaN \/ rest = NaN THEN NaN ELSE Head(s) + rest

\* Series.sum(): skipna=True, and 0 for an empty or all-NaN series.
RECURSIVE Sum(_)
Sum(s) ==
    IF s = <<>> THEN 0
    ELSE (IF Head(s) = NaN THEN 0 ELSE Head(s)) + Sum(Tail(s))

\* Series.nunique(): NaN is not counted.
NUnique(s) == Cardinality(Range(s) \ {NaN})

\* groupby(...).agg("count"): the non-null cells.
Count(s) == Cardinality({i \in DOMAIN s : s[i] # NaN})

\* Ascending order of a set of integers.
RECURSIVE SortAsc(_)
SortAsc(S) ==
    IF S = {} THEN <<>>
    ELSE LET m == CHOOSE x \in S : \A y \in S : x <= y
         IN  <<m>> \o SortAsc(S \ {m})

\* groupby(key): the group keys, sorted, null keys dropped.
GroupKeys(df, key) == SortAsc(Range(Column(df, key)) \ {NaN})

\* The rows of one group, in the frame's order.
Group(df, key, g) == SelectSeq(df, LAMBDA r : r[key] = g)

\* The sum of quantitypurchased * <price column> over a frame's rows.
Revenue(df, price) ==
    Sum([i \in DOMAIN df |-> Mul(df[i].quantitypurchased, df[i][price])])

(***************************************************************************)
(* Timestamps                                                              *)
(***************************************************************************)

\* A transactiondate is [year, month, day, hour].  A cell that is no date
\* (month 13) can only come from a text column: a DATETIME column holds
\* nothing else than timestamps.
ValidDate(ts) == ts.month \in 1..12 /\ ts.day \in 1..31

\* The column is read as datetime64 when the database column is a DATETIME,
\* and as object (strings) otherwise.
IsDatetime64(col) == \A i \in DOMAIN col : ValidDate(col[i])

\* x.dt.date: the calendar date, the time of day dropped.
CalendarDate(ts) == <<ts.year, ts.month, ts.day>>

\* x.nunique(): the distinct timestamps, not the distinct dates.
ActiveDays_Timestamps(x) == Cardinality({x[i] : i \in DOMAIN x})

\* x.dt.date.nunique() of one customer's transactiondate series.
ActiveDays(x) == Cardinality({CalendarDate(x[i]) : i \in DOMAIN x})

\* The characters of a decimal digit, and of '-'.
Chr(d) == 48 + d
Dash == 45

\* "YYYY-M": the month written without its leading zero.
PeriodStr_Unpadded(ts) ==
    << Chr(ts.year \div 1000), Chr((ts.year \div 100) % 10),
       Chr((ts.year \div 10) % 10), Chr(ts.year % 10), Dash >>
    \o (IF ts.month < 10 THEN <<Chr(ts.month)>>
        ELSE <<Chr(ts.month \div 10), Chr(ts.month % 10)>>)

\* dt.to_period("M").astype(str): "YYYY-MM", both parts zero padded.
PeriodStr(ts) ==
    << Chr(ts.year \div 1000), Chr((ts.year \div 100) % 10),
       Chr((ts.year \div 10) % 10), Chr(ts.year % 10), Dash,
       Chr(ts.month \div 10), Chr(ts.month % 10) >>

\* str < str, character by character; a proper prefix is smaller.
RECURSIVE StrLess(_, _)
StrLess(a, b) ==
    IF b = <<>> THEN FALSE
    ELSE IF a = <<>> THEN TRUE
    ELSE IF Head(a) # Head(b) THEN Head(a) < Head(b)
    ELSE StrLess(Tail(a), Tail(b))

\* Ascending order of a set of strings: the group keys of groupby("month").
RECURSIVE SortStr(_)
SortStr(S) ==
    IF S = {} THEN <<>>
    ELSE LET m == CHOOSE x \in S : \A y \in S \ {x} : StrLess(x, y)
         IN  <<m>> \o SortStr(S \ {m})

(***************************************************************************)
(* Lines 55-57: the merged frame                                           *)
(***************************************************************************)

\* pd.merge(left, right, on=key), how="inner": every left row, in the left
\* frame's order, paired with each right row of the same key.
InnerMerge(left, right, key) ==
    LET Pairs(l) == LET m == SelectSeq(right, LAMBDA r : r[key] = l[key])
                    IN  [j \in 1..Len(m) |-> <<l, m[j]>>]
        f[i \in 0..Len(left)] ==
            IF i = 0 THEN <<>> ELSE f[i - 1] \o Pairs(left[i])
    IN  f[Len(left)]

\* price_x taken from the right frame.
PriceX_Right(l, r) == r.price

\* Both frames have a "price" column: the left frame's (sales) becomes
\* price_x and the right frame's (inventory) becomes price_y.
PriceX(l, r) == l.price
PriceY(l, r) == r.price

SalesInventoryRow(l, r) ==
    [transactionid     |-> l.transactionid,
     productid         |-> l.productid,
     customerid        |-> l.customerid,
     quantitypurchased |-> l.quantitypurchased,
     price_x           |-> PriceX(l, r),
     transactiondate   |-> l.transactiondate,
     productname       |-> r.productname,
     category          |-> r.category,
     price_y           |-> PriceY(l, r)]

WithCustomerRow(l, r) ==
    [transactionid     |-> l.transactionid,
     productid         |-> l.productid,
     customerid        |-> l.customerid,
     quantitypurchased |-> l.quantitypurchased,
     price_x           |-> l.price_x,
     transactiondate   |-> l.transactiondate,
     productname       |-> l.productname,
     category          |-> l.category,
     price_y           |-> l.price_y,
     age               |-> r.age,
     gender            |-> r.gender,
     location          |-> r.location]

\* Line 55.
MergeInventory(s, inv) ==
    LET pairs == InnerMerge(s, inv, "productid")
    IN  [k \in DOMAIN pairs |-> SalesInventoryRow(pairs[k][1], pairs[k][2])]

\* how="left": a row without a customer is kept, its customer columns null.
MergeCustomers_Left(m, cust) ==
    LET none == [age |-> NaN, gender |-> "", location |-> ""]
        f[i \in 0..Len(m)] ==
            IF i = 0 THEN <<>>
            ELSE f[i - 1] \o
                 (IF \E k \in DOMAIN cust : cust[k].customerid = m[i].customerid
                  THEN LET pairs == InnerMerge(<<m[i]>>, cust, "customerid")
                       IN  [k \in DOMAIN pairs |->
                               WithCustomerRow(pairs[k][1], pairs[k][2])]
                  ELSE <<WithCustomerRow(m[i], none)>>)
    IN  f[Len(m)]

\* Line 56.
MergeCustomers(m, cust) ==
    LET pairs == InnerMerge(m, cust, "customerid")
    IN  [k \in DOMAIN pairs |-> WithCustomerRow(pairs[k][1], pairs[k][2])]

\* Line 57: merged[merged["category"].isin(category_filter)].
FilterCategory(m, cats) == SelectSeq(m, LAMBDA r : r.category \in cats)

MergedOf(s, inv, cust, cats) ==
    FilterCategory(MergeCustomers(MergeInventory(s, inv), cust), cats)

\* Lines 50-51: inventory["category"].unique().
CategoryOptions(inv) == Range(Column(inv, "category"))

(***************************************************************************)
(* Lines 61-63: the KPIs                                                   *)
(***************************************************************************)

\* count() in place of nunique(): the rows, not the distinct transactions.
TotalOrders_RowCount(m) == Count(Column(m, "transactionid"))

TotalRevenue(m)   == Revenue(m, "price_x")
TotalOrders(m)    == NUnique(Column(m, "transactionid"))
TotalCustomers(m) == NUnique(Column(m, "customerid"))

KpiOf(m) ==
    [total_revenue   |-> TotalRevenue(m),
     total_orders    |-> TotalOrders(m),
     total_customers |-> TotalCustomers(m)]

(***************************************************************************)
(* Lines 71-81: product performance                                        *)
(***************************************************************************)

ProductPerfOf(m) ==
    LET keys == GroupKeys(m, "productname")
    IN  [k \in DOMAIN keys |->
            LET g == Group(m, "productname", keys[k])
            IN  [productname      |-> keys[k],
                 total_units_sold |-> Sum(Column(g, "quantitypurchased")),
                 total_revenue    |-> Revenue(g, "price_x")]]

\* sort_values(col): kind="quicksort", which is not stable, so rows of equal
\* value come out in any order.
RECURSIVE Orderings(_, _, _, _)
Orderings(df, col, ascending, I) ==
    IF I = {} THEN {<<>>}
    ELSE LET first == {i \in I : \A j \in I :
                          IF ascending THEN df[i][col] <= df[j][col]
                                       ELSE df[i][col] >= df[j][col]}
         IN  UNION {{<<df[i]>> \o t :
                        t \in Orderings(df, col, ascending, I \ {i})} :
                    i \in first}

SortValues(df, col, ascending) == Orderings(df, col, ascending, DOMAIN df)

\* head(10).
HeadRows == 10
DfHead(df, n) == SubSeq(df, 1, IF Len(df) < n THEN Len(df) ELSE n)

\* ascending=False left out.
TopCharts_Ascending(pp) ==
    {DfHead(s, HeadRows) : s \in SortValues(pp, "total_units_sold", TRUE)}

\* Line 77 and line 80: the frames the two bar charts are drawn from.
TopCharts(pp) ==
    {DfHead(s, HeadRows) : s \in SortValues(pp, "total_units_sold", FALSE)}
BottomCharts(pp) ==
    {DfHead(s, HeadRows) : s \in SortValues(pp, "total_units_sold", TRUE)}

(***************************************************************************)
(* Lines 85-91: the customer aggregate                                     *)
(***************************************************************************)

CustSegOf(m) ==
    LET keys == GroupKeys(m, "customerid")
    IN  [k \in DOMAIN keys |->
            LET g == Group(m, "customerid", keys[k])
            IN  [customerid   |-> keys[k],
                 total_orders |-> Count(Column(g, "transactionid")),
                 total_spent  |-> Revenue(g, "price_x"),
                 age          |-> g[1].age,
                 gender       |-> g[1].gender,
                 location     |-> g[1].location]]

(***************************************************************************)
(* Lines 100-116: segments by frequency                                    *)
(***************************************************************************)

\* The bands with their upper ends left out (< for <=).
Segment_Exclusive(x) ==
    IF x = 0 THEN "Inactive"
    ELSE IF x < 5 THEN "Low"
    ELSE IF x < 7 THEN "Medium"
    ELSE "High"

\* Lines 105-107.
Segment(x) ==
    IF x = 0 THEN "Inactive"
    ELSE IF x <= 5 THEN "Low"
    ELSE IF x <= 7 THEN "Medium"
    ELSE "High"

\* The segmentation of every customer of the customers table, those without
\* a sale with 0 orders.
CustomerSegmentsOf_AllCustomers(df) ==
    LET keys == SortAsc(Range(Column(df, "customerid"))
                        \cup Range(Column(customers, "customerid")))
    IN  [k \in DOMAIN keys |->
            LET n == Count(Column(Group(df, "customerid", keys[k]),
                                  "transactionid"))
            IN  [customerid       |-> keys[k],
                 total_orders     |-> n,
                 customer_segment |-> Segment(n)]]

\* Lines 100-108, of the frame df.
CustomerSegmentsOf(df) ==
    LET keys == GroupKeys(df, "customerid")
    IN  [k \in DOMAIN keys |->
            LET n == Count(Column(Group(df, "customerid", keys[k]),
                                  "transactionid"))
            IN  [customerid       |-> keys[k],
                 total_orders     |-> n,
                 customer_segment |-> Segment(n)]]

\* Lines 115-116: value_counts() has a row for each segment that occurs.
\* The rows are kept as a set: their order plays no part.
SegmentCountsOf(cs) ==
    {[Segment |-> g,
      Count   |-> Cardinality({i \in DOMAIN cs : cs[i].customer_segment = g})] :
     g \in Range(Column(cs, "customer_segment"))}

(***************************************************************************)
(* Lines 124-146: repeat customers and loyalty                             *)
(***************************************************************************)

\* Lines 124-128.
RepeatCustomersOf(df) ==
    LET keys == GroupKeys(df, "customerid")
        all  == [k \in DOMAIN keys |->
                    [customerid  |-> keys[k],
                     active_days |->
                        ActiveDays(Column(Group(df, "customerid", keys[k]),
                                          "transactiondate"))]]
    IN  SelectSeq(all, LAMBDA r : r.active_days > 1)

\* Lines 143-146.
LoyaltyOf(df) ==
    LET keys == GroupKeys(df, "customerid")
    IN  [k \in DOMAIN keys |->
            LET g == Group(df, "customerid", keys[k])
            IN  [customerid   |-> keys[k],
                 days_active  |-> ActiveDays(Column(g, "transactiondate")),
                 total_orders |-> Count(Column(g, "transactionid"))]]

(***************************************************************************)
(* Lines 155-163: monthly revenue                                          *)
(***************************************************************************)

\* Line 158: the month column added to sales.
WithMonth(df) ==
    [i \in DOMAIN df |->
        [transactionid     |-> df[i].transactionid,
         productid         |-> df[i].productid,
         customerid        |-> df[i].customerid,
         quantitypurchased |-> df[i].quantitypurchased,
         price             |-> df[i].price,
         transactiondate   |-> df[i].transactiondate,
         month             |-> PeriodStr(df[i].transactiondate)]]

\* Lines 161-163, of the frame with its month column.
MonthlyOf(df) ==
    LET keys == SortStr(Range(Column(df, "month")))
    IN  [k \in DOMAIN keys |->
            [month           |-> keys[k],
             monthly_revenue |->
                Revenue(SelectSeq(df, LAMBDA r : r.month = keys[k]), "price")]]

(***************************************************************************)
(* The script, section by section                                          *)
(***************************************************************************)

Steps == <<"load", "filter", "merge", "kpi", "product_perf", "cust_seg",
           "segments", "repeat_customers", "loyalty", "monthly", "done">>

StepNo(p) == CHOOSE i \in DOMAIN Steps : Steps[i] = p

\* The section `step` has run in the current run.
Past(step) == StepNo(pc) > StepNo(step)

Running(step) == pc = step /\ error = ""

NoFrame == <<>>

\* The script's names before the script has bound them.
Unbound ==
    /\ sales = NoFrame /\ customers = NoFrame /\ inventory = NoFrame
    /\ category_filter = {} /\ merged = NoFrame /\ kpi = NoFrame
    /\ product_perf = NoFrame /\ top10 = NoFrame /\ bottom10 = NoFrame
    /\ cust_seg = NoFrame /\ customer_segments = NoFrame
    /\ segment_counts = {} /\ repeat_customers = NoFrame
    /\ repeat = NoFrame /\ monthly = NoFrame

\* Line 44: load_data().
Load ==
    /\ Running("load")
    /\ sales' = db.sales
    /\ customers' = db.customers
    /\ inventory' = db.inventory
    /\ pc' = "filter"
    /\ UNCHANGED <<db, selection, error, category_filter, merged, kpi,
                   product_perf, top10, bottom10, cust_seg, customer_segments,
                   segment_counts, repeat_customers, repeat, monthly, previous>>

\* Lines 47-52: the multiselect returns the user's selection, and every
\* category of the inventory until the user has made one.
Filter ==
    /\ Running("filter")
    /\ category_filter' = IF selection.made THEN selection.value
                          ELSE CategoryOptions(inventory)
    /\ pc' = "merge"
    /\ UNCHANGED <<db, selection, error, sales, customers, inventory, merged,
                   kpi, product_perf, top10, bottom10, cust_seg,
                   customer_segments, segment_counts, repeat_customers,
                   repeat, monthly, previous>>

\* Lines 55-57.
Merge ==
    /\ Running("merge")
    /\ merged' = MergedOf(sales, inventory, customers, category_filter)
    /\ pc' = "kpi"
    /\ UNCHANGED <<db, selection, error, sales, customers, inventory,
                   category_filter, kpi, product_perf, top10, bottom10,
                   cust_seg, customer_segments, segment_counts,
                   repeat_customers, repeat, monthly, previous>>

\* Lines 60-67.
Kpi ==
    /\ Running("kpi")
    /\ kpi' = KpiOf(merged)
    /\ pc' = "product_perf"
    /\ UNCHANGED <<db, selection, error, sales, customers, inventory,
                   category_filter, merged, product_perf, top10, bottom10,
                   cust_seg, customer_segments, segment_counts,
                   repeat_customers, repeat, monthly, previous>>

\* Lines 70-81.
ProductPerf ==
    /\ Running("product_perf")
    /\ product_perf' = ProductPerfOf(merged)
    /\ top10' \in TopCharts(product_perf')
    /\ bottom10' \in BottomCharts(product_perf')
    /\ pc' = "cust_seg"
    /\ UNCHANGED <<db, selection, error, sales, customers, inventory,
                   category_filter, merged, kpi, cust_seg, customer_segments,
                   segment_counts, repeat_customers, repeat, monthly,
                   previous>>

\* Lines 84-95.
CustSeg ==
    /\ Running("cust_seg")
    /\ cust_seg' = CustSegOf(merged)
    /\ pc' = "segments"
    /\ UNCHANGED <<db, selection, error, sales, customers, inventory,
                   category_filter, merged, kpi, product_perf, top10,
                   bottom10, customer_segments, segment_counts,
                   repeat_customers, repeat, monthly, previous>>

\* The segmentation made from the filtered merged frame.
SegmentationInput_Merged == merged

\* Line 100: the frame the segmentation groups.
SegmentationInput == sales

\* Lines 97-121.
Segments ==
    /\ Running("segments")
    /\ customer_segments' = CustomerSegmentsOf(SegmentationInput)
    /\ segment_counts' = SegmentCountsOf(customer_segments')
    /\ pc' = "repeat_customers"
    /\ UNCHANGED <<db, selection, error, sales, customers, inventory,
                   category_filter, merged, kpi, product_perf, top10,
                   bottom10, cust_seg, repeat_customers, repeat, monthly,
                   previous>>

\* Lines 124-136.  The .dt accessor of line 125 is applied to the column as
\* it was loaded: it raises on a column that is not datetime64.
RepeatCustomers ==
    /\ Running("repeat_customers")
    /\ IF IsDatetime64(Column(sales, "transactiondate"))
       THEN /\ repeat_customers' = RepeatCustomersOf(sales)
            /\ pc' = "loyalty"
            /\ error' = error
       ELSE /\ error' = "AttributeError"
            /\ UNCHANGED <<repeat_customers, pc>>
    /\ UNCHANGED <<db, selection, sales, customers, inventory,
                   category_filter, merged, kpi, product_perf, top10,
                   bottom10, cust_seg, customer_segments, segment_counts,
                   repeat, monthly, previous>>

\* Lines 139-149: pd.to_datetime on a copy of sales, then the aggregate.
Loyalty ==
    /\ Running("loyalty")
    /\ IF \A i \in DOMAIN sales : ValidDate(sales[i].transactiondate)
       THEN /\ repeat' = LoyaltyOf(sales)
            /\ pc' = "monthly"
            /\ error' = error
       ELSE /\ error' = "ValueError"
            /\ UNCHANGED <<repeat, pc>>
    /\ UNCHANGED <<db, selection, sales, customers, inventory,
                   category_filter, merged, kpi, product_perf, top10,
                   bottom10, cust_seg, customer_segments, segment_counts,
                   repeat_customers, monthly, previous>>

\* Lines 151-169: sales gets its month column, in place.
Monthly ==
    /\ Running("monthly")
    /\ IF \A i \in DOMAIN sales : ValidDate(sales[i].transactiondate)
       THEN /\ sales' = WithMonth(sales)
            /\ monthly' = MonthlyOf(sales')
            /\ pc' = "done"
            /\ error' = error
       ELSE /\ error' = "ValueError"
            /\ UNCHANGED <<sales, monthly, pc>>
    /\ UNCHANGED <<db, selection, customers, inventory, category_filter,
                   merged, kpi, product_perf, top10, bottom10, cust_seg,
                   customer_segments, segment_counts, repeat_customers,
                   repeat, previous>>

\* The user changes the multiselect: the script runs again from the top, on
\* the same database.  `previous` keeps what the run before displayed from
\* the raw sales table.
Rerun ==
    /\ pc = "done" \/ error # ""
    /\ \E chosen \in SUBSET CategoryOptions(db.inventory) :
          selection' = [made |-> TRUE, value |-> chosen]
    /\ previous' = IF pc = "done"
                   THEN [shown             |-> TRUE,
                         customer_segments |-> customer_segments,
                         segment_counts    |-> segment_counts,
                         repeat_customers  |-> repeat_customers,
                         repeat            |-> repeat,
                         monthly           |-> monthly]
                   ELSE previous
    /\ pc' = "load"
    /\ error' = ""
    /\ sales' = NoFrame /\ customers' = NoFrame /\ inventory' = NoFrame
    /\ category_filter' = {} /\ merged' = NoFrame /\ kpi' = NoFrame
    /\ product_perf' = NoFrame /\ top10' = NoFrame /\ bottom10' = NoFrame
    /\ cust_seg' = NoFrame /\ customer_segments' = NoFrame
    /\ segment_counts' = {} /\ repeat_customers' = NoFrame
    /\ repeat' = NoFrame /\ monthly' = NoFrame
    /\ UNCHANGED db

Next ==
    \/ Load
    \/ Filter
    \/ Merge
    \/ Kpi
    \/ ProductPerf
    \/ CustSeg
    \/ Segments
    \/ RepeatCustomers
    \/ Loyalty
    \/ Monthly
    \/ Rerun

NothingShown ==
    [shown |-> FALSE, customer_segments |-> NoFrame, segment_counts |-> {},
     repeat_customers |-> NoFrame, repeat |-> NoFrame, monthly |-> NoFrame]

\* The first run of a session on the database d.
Start(d) ==
    /\ db = d
    /\ selection = [made |-> FALSE, value |-> {}]
    /\ pc = "load"
    /\ error = ""
    /\ Unbound
    /\ previous = NothingShown

(***************************************************************************)
(* Databases                                                               *)
(***************************************************************************)

Sale(t, p, c, q, pr, d) ==
    [transactionid |-> t, productid |-> p, customerid |-> c,
     quantitypurchased |-> q, price |-> pr, transactiondate |-> d]

Customer(c, a, g, l) ==
    [customerid |-> c, age |-> a, gender |-> g, location |-> l]

Product(p, n, cat, pr) ==
    [productid |-> p, productname |-> n, category |-> cat, price |-> pr]

Timestamp(y, m, d, h) == [year |-> y, month |-> m, day |-> d, hour |-> h]

\* The non-empty frames of at most n rows drawn from Rows.
Frames(Rows, n) == UNION {[1..k -> Rows] : k \in 1..n}

Database(s, c, i) == [sales |-> s, customers |-> c, inventory |-> i]

AnyDay == Timestamp(2024, 3, 5, 9)

TwoCustomers == <<Customer(1, 30, "F", "Pune"), Customer(2, 40, "M", "Surat")>>

\* Sales of two products to two customers, the quantity that of the
\* transaction; the inventory may lack product 2, list it twice or price it
\* differently, and the customers table may lack customer 2.
MaxSales == 2

JoinSales ==
    Frames({Sale(t, p, c, t, 10, AnyDay) :
                t \in 1..2, p \in 1..2, c \in 1..2}, MaxSales)

JoinInventories ==
    { <<Product(1, 1, "Toys", 10), Product(2, 2, "Books", 10)>>,
      <<Product(2, 1, "Toys", 12), Product(1, 2, "Books", 7)>>,
      <<Product(1, 1, "Toys", 7)>>,
      <<Product(1, 1, "Toys", 10), Product(2, 2, "Books", 10),
        Product(2, 3, "Toys", 12)>> }

JoinCustomers == {TwoCustomers, <<Customer(1, 30, "F", "Pune")>>}

JoinDatabases ==
    {Database(s, c, i) :
        s \in JoinSales, c \in JoinCustomers, i \in JoinInventories}

\* Up to MaxOrders sales of one product, each to customer 1 or 2, every
\* transaction with its own id; customer 3 has bought nothing.
MaxOrders == 9

OneProduct == <<Product(1, 1, "Toys", 10)>>

ThreeCustomers == TwoCustomers \o <<Customer(3, 50, "F", "Rajkot")>>

FrequencyDatabases ==
    {Database([i \in DOMAIN c |-> Sale(i, 1, c[i], 1, 10, AnyDay)],
              ThreeCustomers, OneProduct) :
        c \in UNION {[1..k -> 1..2] : k \in 1..MaxOrders}}

\* Sales on days of one month, of two months of a year and of two years,
\* two of them on the same day; customer c buys c units at 5 c each.
MaxDatedSales == 3

Days ==
    {Timestamp(2024, 3, 5, 9), Timestamp(2024, 3, 5, 17),
     Timestamp(2024, 3, 28, 0), Timestamp(2024, 10, 1, 0),
     Timestamp(2023, 12, 31, 23)}

DatedDatabases ==
    {Database(s, TwoCustomers, OneProduct) :
        s \in Frames({Sale(1, 1, c, c, 5 * c, d) : c \in 1..2, d \in Days},
                     MaxDatedSales)}

\* One sale of each of the first n products, the last product first:
\* product p sells p units, products 5 and 10 one more at times, and
\* product 1 at times has a second sale of one unit.
MaxProducts == 11

Catalogue(n) == [p \in 1..n |-> Product(p, p, "Toys", 10)]

ProductSales(n, more5, more10, twice1) ==
    [i \in 1..n |->
        LET p == n + 1 - i
            q == IF (p = 5 /\ more5) \/ (p = 10 /\ more10) THEN p + 1 ELSE p
        IN  Sale(i, p, 1, q, 10, AnyDay)]
    \o (IF twice1 THEN <<Sale(n + 1, 1, 2, 1, 10, AnyDay)>> ELSE <<>>)

ProductDatabases ==
    {Database(ProductSales(n, b[1], b[2], b[3]), TwoCustomers, Catalogue(n)) :
        n \in 1..MaxProducts, b \in [1..3 -> BOOLEAN]}

\* Sales whose quantity or price is NULL, or whose date is no date.
MaxMalformedSales == 3

NoDay == Timestamp(2024, 13, 5, 0)

MalformedDatabases ==
    {Database([i \in DOMAIN r |-> Sale(i, 1, 1, r[i][1], r[i][2], r[i][3])],
              TwoCustomers, OneProduct) :
        r \in UNION {[1..k -> {NaN, 2} \X {NaN, 5} \X {AnyDay, NoDay}] :
                        k \in 1..MaxMalformedSales}}

Init ==
    \E d \in JoinDatabases \cup FrequencyDatabases \cup DatedDatabases
             \cup ProductDatabases : Start(d)

Spec == Init /\ [][Next]_vars

InitMalformed == \E d \in MalformedDatabases : Start(d)

SpecMalformed == InitMalformed /\ [][Next]_vars

(***************************************************************************)
(* Properties                                                              *)
(***************************************************************************)

\* The sum of f over the index set I.
RECURSIVE SumOver(_, _)
SumOver(I, f) ==
    IF I = {} THEN 0
    ELSE LET i == CHOOSE j \in I : TRUE
         IN  f[i] + SumOver(I \ {i}, f)

\* The (sale, product, customer) row numbers the inner join pairs up, for
\* the categories cats.
Joined(cats) ==
    {t \in (DOMAIN db.sales) \X (DOMAIN db.inventory) \X (DOMAIN db.customers) :
        /\ db.sales[t[1]].productid = db.inventory[t[2]].productid
        /\ db.sales[t[1]].customerid = db.customers[t[3]].customerid
        /\ db.inventory[t[2]].category \in cats}

AllCategories == {db.inventory[j].category : j \in DOMAIN db.inventory}

\* The sale in row i has no product or no customer to join.
Unmatched(i) ==
    \/ \A j \in DOMAIN db.inventory :
          db.inventory[j].productid # db.sales[i].productid
    \/ \A k \in DOMAIN db.customers :
          db.customers[k].customerid # db.sales[i].customerid

\* The number of sales of customer c in the sales table.
OrdersOf(c) == Cardinality({i \in DOMAIN db.sales : db.sales[i].customerid = c})

\* C1: for every category filter, total_orders is the number of distinct
\* transactionids among the joined rows whose category is selected; with
\* nothing selected, total_revenue, total_orders and total_customers are 0.
C1_TotalOrders ==
    Past("kpi") =>
        /\ kpi.total_orders =
              Cardinality({db.sales[t[1]].transactionid :
                              t \in Joined(category_filter)})
        /\ category_filter = {} =>
              /\ kpi.total_revenue = 0
              /\ kpi.total_orders = 0
              /\ kpi.total_customers = 0

\* Some but not all categories are selected, and a transaction of a selected
\* category has two joined rows.
C1_Witness ==
    /\ Past("kpi")
    /\ category_filter # {}
    /\ category_filter # AllCategories
    /\ kpi.total_orders > 0
    /\ Len(merged) > kpi.total_orders

\* Nothing is selected, although there are sales that join.
C1_WitnessEmpty ==
    /\ Past("kpi")
    /\ category_filter = {}
    /\ Joined(AllCategories) # {}

Band(n) ==
    CASE n = 0     -> "Inactive"
      [] n \in 1..5 -> "Low"
      [] n \in 6..7 -> "Medium"
      [] n >= 8     -> "High"

\* C2: the segment is a step function of the customer's number of sales in
\* the raw sales table: 0 Inactive, 1 to 5 Low, 6 and 7 Medium, 8 and more
\* High.
C2_Segmentation ==
    /\ Segment(0) = Band(0)
    /\ Past("segments") =>
          \A i \in DOMAIN customer_segments :
              LET r == customer_segments[i]
              IN  /\ r.total_orders = OrdersOf(r.customerid)
                  /\ r.customer_segment = Band(r.total_orders)

\* One customer with 8 sales is High beside one that is Low.
C2_Witness ==
    /\ Past("segments")
    /\ \E i, j \in DOMAIN customer_segments :
          /\ customer_segments[i].total_orders = 8
          /\ customer_segments[i].customer_segment = "High"
          /\ customer_segments[j].customer_segment = "Low"

MatchedSales ==
    LET keep == SortAsc({i \in DOMAIN db.sales : ~Unmatched(i)})
    IN  [k \in DOMAIN keep |-> db.sales[keep[k]]]

MergedOfMatched ==
    MergedOf(MatchedSales, db.inventory, db.customers, category_filter)

\* C3: a sale without a product or without a customer to join adds nothing
\* to the KPIs, the product performance and the customer aggregate, whatever
\* the filter (they are those of the sales table without it), and is counted
\* in its customer's number of orders in the segmentation.
C3_UnmatchedSales ==
    LET joined  == {<<db.sales[t[1]].transactionid, db.sales[t[1]].productid,
                      db.sales[t[1]].customerid>> :
                        t \in Joined(category_filter)}
        matched == MergedOfMatched
    IN  /\ Past("merge") =>
              \A r \in Range(merged) :
                  <<r.transactionid, r.productid, r.customerid>> \in joined
        /\ Past("kpi") => kpi = KpiOf(matched)
        /\ Past("product_perf") => product_perf = ProductPerfOf(matched)
        /\ Past("cust_seg") => cust_seg = CustSegOf(matched)
        /\ Past("segments") =>
              \A i \in DOMAIN db.sales :
                  Unmatched(i) =>
                      \E r \in Range(customer_segments) :
                          /\ r.customerid = db.sales[i].customerid
                          /\ r.total_orders = OrdersOf(r.customerid)

\* A sale that joins beside one that does not, all categories selected.
C3_Witness ==
    /\ Past("segments")
    /\ category_filter = AllCategories
    /\ Len(merged) > 0
    /\ \E i \in DOMAIN db.sales : Unmatched(i)

\* The decimal number a string of digits writes.
RECURSIVE DigitsValue(_)
DigitsValue(s) ==
    IF s = <<>> THEN 0
    ELSE 10 * DigitsValue(SubSeq(s, 1, Len(s) - 1)) + (s[Len(s)] - 48)

\* The <<year, month>> a bucket's label "YYYY-MM" names.
LabelMonth(s) ==
    LET dash == CHOOSE i \in DOMAIN s : s[i] = Dash
    IN  <<DigitsValue(SubSeq(s, 1, dash - 1)),
          DigitsValue(SubSeq(s, dash + 1, Len(s)))>>

SaleMonth(i) ==
    <<db.sales[i].transactiondate.year, db.sales[i].transactiondate.month>>

EarlierMonth(a, b) == a[1] < b[1] \/ (a[1] = b[1] /\ a[2] < b[2])

\* C4: monthly revenue has exactly one entry for each month with a sale,
\* its value the sum of quantitypurchased * price over the sales of that
\* month, and the entries are in chronological order.
C4_MonthlyRevenue ==
    pc = "done" =>
        /\ {LabelMonth(monthly[k].month) : k \in DOMAIN monthly}
              = {SaleMonth(i) : i \in DOMAIN db.sales}
        /\ \A k \in DOMAIN monthly :
              /\ Len(monthly[k].month) = 7
              /\ monthly[k].monthly_revenue =
                    SumOver({i \in DOMAIN db.sales :
                                SaleMonth(i) = LabelMonth(monthly[k].month)},
                            [i \in DOMAIN db.sales |->
                                db.sales[i].quantitypurchased
                                    * db.sales[i].price])
        /\ \A k, l \in DOMAIN monthly :
              k < l => EarlierMonth(LabelMonth(monthly[k].month),
                                    LabelMonth(monthly[l].month))

\* 2 units at 10 and 1 unit at 5 on two days of March 2024 make the bucket
\* "2024-03" of 25, which comes before "2024-10".
C4_Witness ==
    /\ pc = "done"
    /\ Len(monthly) = 2
    /\ monthly[1] = [month |-> <<50, 48, 50, 52, 45, 48, 51>>,
                     monthly_revenue |-> 25]
    /\ LabelMonth(monthly[2].month) = <<2024, 10>>
    /\ \E i, j \in DOMAIN db.sales :
          /\ db.sales[i].transactiondate.day # db.sales[j].transactiondate.day
          /\ SaleMonth(i) = SaleMonth(j)

UnitsOf(name, m) ==
    SumOver({i \in DOMAIN m : m[i].productname = name},
            [i \in DOMAIN m |-> m[i].quantitypurchased])

\* One row for each product name of the merged frame, with its units.
OneRowPerProduct ==
    /\ {product_perf[k].productname : k \in DOMAIN product_perf}
          = {merged[i].productname : i \in DOMAIN merged}
    /\ \A k, l \in DOMAIN product_perf :
          product_perf[k].productname = product_perf[l].productname => k = l
    /\ \A k \in DOMAIN product_perf :
          product_perf[k].total_units_sold =
              UnitsOf(product_perf[k].productname, merged)

\* The rows of df in the order of their units, rows of equal units in the
\* order they have in df.
RECURSIVE StableOrder(_, _, _)
StableOrder(df, ascending, I) ==
    IF I = {} THEN <<>>
    ELSE LET i == CHOOSE x \in I : \A y \in I \ {x} :
                     \/ IF ascending
                        THEN df[x].total_units_sold < df[y].total_units_sold
                        ELSE df[x].total_units_sold > df[y].total_units_sold
                     \/ /\ df[x].total_units_sold = df[y].total_units_sold
                        /\ x < y
         IN  <<df[i]>> \o StableOrder(df, ascending, I \ {i})

\* C5 as stated: one row per product name with its units; the top list is
\* the first 10 rows by descending units, the bottom list the first 10 by
\* ascending units, products of equal units in their input order in both.
C5_StableTies ==
    Past("product_perf") =>
        /\ OneRowPerProduct
        /\ top10 = DfHead(StableOrder(product_perf, FALSE,
                                      DOMAIN product_perf), 10)
        /\ bottom10 = DfHead(StableOrder(product_perf, TRUE,
                                         DOMAIN product_perf), 10)

\* chart is the first rows of product_perf put in the order of the units.
FirstByUnits(chart, ascending) ==
    /\ Len(chart) = IF Len(product_perf) < 10 THEN Len(product_perf) ELSE 10
    /\ Range(chart) \subseteq Range(product_perf)
    /\ \A k, l \in DOMAIN chart : chart[k] = chart[l] => k = l
    /\ \A k, l \in DOMAIN chart :
          k < l => IF ascending
                   THEN chart[k].total_units_sold <= chart[l].total_units_sold
                   ELSE chart[k].total_units_sold >= chart[l].total_units_sold
    /\ \A r \in Range(product_perf) \ Range(chart) :
          \A k \in DOMAIN chart :
              IF ascending
              THEN chart[k].total_units_sold <= r.total_units_sold
              ELSE chart[k].total_units_sold >= r.total_units_sold

\* C5 as amended: one row per product name with its units; the top list is
\* the first 10 rows by descending units and the bottom list the first 10
\* by ascending units; the order of products of equal units is not fixed.
C5_TopAndBottom ==
    Past("product_perf") =>
        /\ OneRowPerProduct
        /\ FirstByUnits(top10, FALSE)
        /\ FirstByUnits(bottom10, TRUE)

\* More than 10 products, one of them with two sales, and in the top list
\* two products of equal units against their input order.
C5_Witness ==
    /\ Past("product_perf")
    /\ Len(product_perf) > 10
    /\ Len(merged) > Len(product_perf)
    /\ \E k, l \in DOMAIN top10 :
          /\ k < l
          /\ top10[k].total_units_sold = top10[l].total_units_sold
          /\ top10[k].productname > top10[l].productname

\* The calendar dates on which customer c has a sale.
DaysOf(c) ==
    {<<db.sales[i].transactiondate.year, db.sales[i].transactiondate.month,
       db.sales[i].transactiondate.day>> :
        i \in {j \in DOMAIN db.sales : db.sales[j].customerid = c}}

\* C6: the repeat customers are exactly the customers of the sales table
\* with sales on more than one calendar date, each with that number of
\* dates as active_days.
C6_RepeatCustomers ==
    Past("repeat_customers") =>
        /\ Range(repeat_customers) =
              {[customerid |-> c, active_days |-> Cardinality(DaysOf(c))] :
                  c \in {db.sales[i].customerid :
                            i \in {j \in DOMAIN db.sales :
                                      Cardinality(DaysOf(db.sales[j].customerid)) > 1}}}
        /\ \A k, l \in DOMAIN repeat_customers :
              repeat_customers[k].customerid = repeat_customers[l].customerid
                  => k = l

\* Customer 1 has three sales on two dates, two of them at different hours
\* of one day, and is a repeat customer of 2 active days; customer 2, with
\* sales on one date only, is none.
C6_Witness ==
    /\ Past("repeat_customers")
    /\ OrdersOf(1) = 3
    /\ \E i, j \in DOMAIN db.sales :
          /\ db.sales[i].customerid = 1 /\ db.sales[j].customerid = 1
          /\ db.sales[i].transactiondate # db.sales[j].transactiondate
          /\ CalendarDate(db.sales[i].transactiondate)
                = CalendarDate(db.sales[j].transactiondate)
    /\ repeat_customers = <<[customerid |-> 1, active_days |-> 2]>>

EveryCategorySelected == category_filter = AllCategories

\* Every sale joins exactly one product and one customer.
EverySaleJoinsOnce ==
    \A i \in DOMAIN db.sales :
        Cardinality({t \in Joined(AllCategories) : t[1] = i}) = 1

\* Some sale was made at another price than its product's inventory price.
PricesDiffer ==
    \E t \in Joined(AllCategories) :
        db.sales[t[1]].price # db.inventory[t[2]].price

SumOfMonthly ==
    SumOver(DOMAIN monthly, [k \in DOMAIN monthly |-> monthly[k].monthly_revenue])

\* C7 as stated: total_revenue multiplies quantitypurchased by the
\* inventory price, so that it differs from the sum of the monthly revenues
\* when an inventory price differs from the sale price (every category
\* selected, every sale joined).
C7_InventoryPrice ==
    (pc = "done" /\ EveryCategorySelected /\ EverySaleJoinsOnce
        /\ PricesDiffer) =>
        /\ kpi.total_revenue =
              SumOver(Joined(category_filter),
                      [t \in Joined(category_filter) |->
                          db.sales[t[1]].quantitypurchased
                              * db.inventory[t[2]].price])
        /\ kpi.total_revenue # SumOfMonthly

\* C7 as amended: total_revenue and the per-product total_revenue multiply
\* quantitypurchased by the sales table's own price (price_x is the left
\* frame's column), as monthly revenue does; with every category selected
\* and every sale joined once, total_revenue is the sum of the monthly
\* revenues whatever the inventory prices.
C7_SalePrice ==
    /\ Past("kpi") =>
          kpi.total_revenue =
              SumOver(Joined(category_filter),
                      [t \in Joined(category_filter) |->
                          db.sales[t[1]].quantitypurchased
                              * db.sales[t[1]].price])
    /\ Past("product_perf") =>
          SumOver(DOMAIN product_perf,
                  [k \in DOMAIN product_perf |-> product_perf[k].total_revenue])
              = kpi.total_revenue
    /\ (pc = "done" /\ EveryCategorySelected /\ EverySaleJoinsOnce) =>
          kpi.total_revenue = SumOfMonthly

\* A finished run over sales made at other prices than the inventory's.
C7_Witness ==
    /\ pc = "done"
    /\ EveryCategorySelected
    /\ EverySaleJoinsOnce
    /\ PricesDiffer
    /\ kpi.total_revenue > 0
    /\ kpi.total_revenue = SumOfMonthly

NullSale(i) ==
    db.sales[i].quantitypurchased = NaN \/ db.sales[i].price = NaN

NoDateSale(i) ==
    ~(/\ db.sales[i].transactiondate.month \in 1..12
      /\ db.sales[i].transactiondate.day \in 1..31)

\* C8 as stated: with a malformed sales row (a null quantity, a null price,
\* a date that is none) the run fails without producing a KPI, an aggregate
\* or a monthly series.
C8_Aborts ==
    (\E i \in DOMAIN db.sales : NullSale(i) \/ NoDateSale(i)) =>
        ~Past("kpi") /\ pc # "done"

\* The revenue of the well-formed sales among those of the set I.
SoundRevenue(I) ==
    SumOver({i \in I : ~NullSale(i)},
            [i \in DOMAIN db.sales |->
                db.sales[i].quantitypurchased * db.sales[i].price])

\* C8 as amended: a null quantity or price does not end the run; the sums
\* skip that row, which adds nothing to total_revenue or to its month's
\* revenue and is still counted as an order, and every output is produced
\* from the other rows.  A date that is none ends the run, but only at the
\* repeat-customers section, after the KPIs, the product performance, the
\* customer aggregate and the segments have been produced; the repeat
\* customers, the loyalty series and the monthly revenue are not.
C8_NullsSkipped ==
    /\ error # "" =>
          /\ pc = "repeat_customers"
          /\ \E i \in DOMAIN db.sales : NoDateSale(i)
          /\ error = "AttributeError"
          /\ kpi = KpiOf(merged)
          /\ customer_segments # NoFrame
          /\ repeat_customers = NoFrame /\ repeat = NoFrame
          /\ monthly = NoFrame
    /\ (\E i \in DOMAIN db.sales : NoDateSale(i)) =>
          pc \notin {"loyalty", "monthly", "done"}
    /\ Past("kpi") =>
          /\ kpi.total_revenue =
                IF category_filter = {} THEN 0
                ELSE SoundRevenue(DOMAIN db.sales)
          /\ kpi.total_orders =
                IF category_filter = {} THEN 0 ELSE Len(db.sales)
    /\ pc = "done" =>
          \A k \in DOMAIN monthly :
              monthly[k].monthly_revenue =
                  SoundRevenue({i \in DOMAIN db.sales :
                                   SaleMonth(i) = LabelMonth(monthly[k].month)})

\* A finished run over a sale of null quantity, a sale of null price and a
\* well-formed sale, whose revenue alone is the total.
C8_Witness ==
    /\ pc = "done"
    /\ error = ""
    /\ \E i, j \in DOMAIN db.sales :
          /\ db.sales[i].quantitypurchased = NaN
          /\ db.sales[j].price = NaN /\ db.sales[j].quantitypurchased # NaN
    /\ kpi.total_revenue = 10
    /\ kpi.total_orders = 3
    /\ SumOfMonthly = 10

\* A run ended at the repeat-customers section by a date that is none, the
\* KPIs on display.
C8_WitnessNoDate ==
    /\ error = "AttributeError"
    /\ pc = "repeat_customers"
    /\ kpi.total_revenue > 0

\* C9: the category filter does not reach the outputs made from the raw
\* sales table: the segments, the repeat customers, the loyalty series and
\* the monthly revenue of a run are those of the run before, whatever the
\* two selections.
C9_FilterFrame ==
    previous.shown =>
        /\ Past("segments") =>
              /\ customer_segments = previous.customer_segments
              /\ segment_counts = previous.segment_counts
        /\ Past("repeat_customers") =>
              repeat_customers = previous.repeat_customers
        /\ Past("loyalty") => repeat = previous.repeat
        /\ pc = "done" => monthly = previous.monthly

\* A second run, with a selection that leaves out sales the first run (every
\* category selected) had joined.
C9_Witness ==
    /\ previous.shown
    /\ pc = "done"
    /\ category_filter # AllCategories
    /\ Cardinality(Joined(category_filter))
          < Cardinality(Joined(AllCategories))
    /\ customer_segments # NoFrame
    /\ monthly # NoFrame

\* C10: every customer of the segmentation has at least one order, so none
\* is "Inactive", and a customer of the customers table without a sale is
\* not in the segmentation at all.
C10_NeverInactive ==
    Past("segments") =>
        /\ \A r \in Range(customer_segments) :
              /\ r.total_orders >= 1
              /\ r.customer_segment # "Inactive"
        /\ \A r \in segment_counts : r.Segment # "Inactive"
        /\ \A k \in DOMAIN db.customers :
              OrdersOf(db.customers[k].customerid) = 0 =>
                  \A r \in Range(customer_segments) :
                      r.customerid # db.customers[k].customerid
        /\ SumOver(segment_counts, [r \in segment_counts |-> r.Count])
              = Cardinality({db.sales[i].customerid : i \in DOMAIN db.sales})

\* The segmentation of sales tables that leave customer 3, and at times
\* another customer, without a sale.
C10_Witness ==
    /\ Past("segments")
    /\ Len(db.customers) = 3
    /\ OrdersOf(3) = 0
    /\ Len(customer_segments) = 1
    /\ segment_counts = {[Segment |-> "Medium", Count |-> 1]}

====
